---- MODULE Spec2Model ----
(***************************************************************************)
(* A model of the chat store of pro-chat (src/ProChat/store/action.ts):    *)
(* the message sequence `chats`, the generation session                    *)
(* (`chatLoadingId`, `abortController`) and the asynchronous generation    *)
(* attempts started by sendMessage / resendMessage.                        *)
(*                                                                         *)
(* Every async function is cut at its awaits: one action per synchronous   *)
(* stretch of code.  A generation attempt is a record of `procs`; its      *)
(* local variables (messages, assistantId, output, isFunctionCall, the     *)
(* AbortController it captured) are fields of that record.                 *)
(*                                                                         *)
(* Text is a sequence of tokens, string concatenation is \o.               *)
(***************************************************************************)
EXTENDS Integers, Sequences, FiniteSets, TLC

\* ------------------------------------------------------------- bounds
\* generation attempts (realFetchAIResponse calls) in one behaviour
MaxAttempts == 2
\* chunks delivered by the streaming consumer, over all attempts
MaxChunks == 2
\* clearMessage calls waiting in `await onResetMessage()` at one time
MaxClears == 1
\* messages of the conversation a store is constructed with
MaxInitLen == 3
\* nested calls the call stack holds before it is exhausted
MaxStack == 3

\* ------------------------------------------------------------- values
\* `undefined` for an id, a controller or a parentId
None == 0

\* LOADING_FLAT, the placeholder content of a fresh assistant message
LOADING_FLAT == <<".", ".", ".">>

\* the texts a caller passes to sendMessage; <<>> is the empty string
Texts == {<<>>, <<"h">>}

\* the text increments the streaming consumer hands to onMessageHandle
ChunkTexts == {<<"a">>, <<"f">>}

\* the function-call marker isFunctionMessage looks for
FUNCTION_MESSAGE_FLAG == "f"

\* the error descriptor the streaming consumer hands to onErrorHandle
ChatError == "error"
NoError == "none"

\* config.model, written to the new message's extra.fromModel
ConfigModel == "model"
NoModel == "none"

VARIABLES
    chats,            \* the conversation: a sequence of messages
    chatLoadingId,    \* store.chatLoadingId: a message id or None
    abortController,  \* store.abortController: the attempt whose controller it is, or None
    procs,            \* the generation attempts, in creation order
    nextId,           \* nanoid(): the next unused id
    clearPending,     \* clearMessage calls waiting for onResetMessage
    chunkCount,       \* chunks delivered so far
    stopSeen,         \* history: attempts that were streaming when stop was called
    lastOp,           \* history: the last handler that ran
    updateCommands    \* history: updateMessage commands the last updateMessageContent applied

vars == <<chats, chatLoadingId, abortController, procs, nextId,
          clearPending, chunkCount, stopSeen, lastOp, updateCommands>>

\* ------------------------------------------------- the message reducer
\* the message an addMessage command builds
NewMessage(id, role, message, parentId) ==
    [id |-> id, role |-> role, content |-> message, parentId |-> parentId,
     error |-> NoError, fromModel |-> NoModel]

\* messagesReducer(state, payload): the next conversation; a command naming
\* an id that is not in the conversation changes nothing
messagesReducer(state, payload) ==
    CASE payload.type = "addMessage" ->
           Append(state, NewMessage(payload.id, payload.role, payload.message,
                                    payload.parentId))
      [] payload.type = "deleteMessage" ->
           SelectSeq(state, LAMBDA m : m.id # payload.id)
      [] payload.type = "updateMessage" ->
           [i \in DOMAIN state |->
              IF state[i].id = payload.id
              THEN [state[i] EXCEPT ![payload.key] = payload.value]
              ELSE state[i]]
      [] payload.type = "updateMessageExtra" ->
           [i \in DOMAIN state |->
              IF state[i].id = payload.id
              THEN [state[i] EXCEPT ![payload.key] = payload.value]
              ELSE state[i]]
      [] payload.type = "resetMessages" -> << >>

\* isFunctionMessage(content): the content carries the function-call marker
isFunctionMessage(content) ==
    \E i \in 1..Len(content) : content[i] = FUNCTION_MESSAGE_FLAG

\* ------------------------------------------------------------ helpers
\* Array.findIndex by id, 1-based; 0 stands for -1
FindIndex(chs, id) ==
    IF \E i \in 1..Len(chs) : chs[i].id = id
    THEN CHOOSE i \in 1..Len(chs) :
            /\ chs[i].id = id
            /\ \A j \in 1..(i - 1) : chs[j].id # id
    ELSE 0

\* chats.slice(0, n)
Slice(chs, n) == SubSeq(chs, 1, n)

\* the ids of the messages of a conversation
Ids(chs) == {chs[i].id : i \in 1..Len(chs)}

\* the dispatchMessage payloads the handlers build
AddPayload(id, role, message, parentId) ==
    [type |-> "addMessage", id |-> id, role |-> role, message |-> message,
     parentId |-> parentId]

UpdatePayload(id, key, value) ==
    [type |-> "updateMessage", id |-> id, key |-> key, value |-> value]

ExtraPayload(id, key, value) ==
    [type |-> "updateMessageExtra", id |-> id, key |-> key, value |-> value]

DeletePayload(id) == [type |-> "deleteMessage", id |-> id]

ResetPayload == [type |-> "resetMessages"]

\* the name of the handler that ran, and the text sendMessage was given
Op(name) == [op |-> name, text |-> << >>]

\* ------------------------------------------------------ initial state
Init ==
    /\ chats = << >>
    /\ chatLoadingId = None
    /\ abortController = None
    /\ procs = << >>
    /\ nextId = 1
    /\ clearPending = 0
    /\ chunkCount = 0
    /\ stopSeen = {}
    /\ lastOp = Op("init")
    /\ updateCommands = 0

\* ------------------------------------------------- toggleChatLoading
\* toggleChatLoading(loading, id): the session it leaves in the store; ctrl
\* is the AbortController it creates when loading
toggleChatLoading(loading, id, ctrl) ==
    IF loading
    THEN [abortController |-> ctrl, chatLoadingId |-> id]
    ELSE [abortController |-> None, chatLoadingId |-> None]

\* ------------------------------------------------ realFetchAIResponse
\* an attempt whose messages are read after its placeholder was added
NewAttemptWithPlaceholder(messages, userMessageId, mid) ==
    [pc |-> "getMessageId",
     messages |-> Append(messages, NewMessage(mid, "assistant", LOADING_FLAT,
                                              userMessageId)),
     userMessageId |-> userMessageId, mid |-> mid,
     output |-> << >>, isFunctionCall |-> FALSE, aborted |-> FALSE,
     received |-> << >>, dispatched |-> << >>]

\* realFetchAIResponse(messages, userMessageId) up to `await getMessageId`:
\* a new attempt; getMessageId has drawn its id (nanoid) already
NewAttempt(messages, userMessageId, mid) ==
    [pc |-> "getMessageId", messages |-> messages,
     userMessageId |-> userMessageId, mid |-> mid,
     output |-> << >>, isFunctionCall |-> FALSE, aborted |-> FALSE,
     received |-> << >>, dispatched |-> << >>]

\* ------------------------------------------------------- sendMessage
\* a sendMessage that does not test its text
SendNeverReturnsEarly(message) == FALSE

\* `if (!message) return`
SendReturnsEarly(message) == message = << >>

\* the addMessage command of the user's message
UserPayload(userId, message) == AddPayload(userId, "user", message, None)

\* sendMessage(message), up to the `await getMessageId` of
\* realFetchAIResponse: the user message is added, the context is the
\* conversation read back from the store
SendMessage(message) ==
    /\ lastOp' = [op |-> "sendMessage", text |-> message]
    /\ UNCHANGED updateCommands
    /\ IF SendReturnsEarly(message)
       THEN UNCHANGED <<chats, procs, nextId>>
       ELSE /\ Len(procs) < MaxAttempts
            /\ LET userId == nextId
                   messages == messagesReducer(chats, UserPayload(userId, message))
               IN /\ chats' = messages
                  /\ procs' = Append(procs, NewAttempt(messages, userId, nextId + 1))
                  /\ nextId' = nextId + 2
    /\ UNCHANGED <<chatLoadingId, abortController, clearPending,
                   chunkCount, stopSeen>>

\* ----------------------------------------------------- resendMessage
\* a context that is the whole conversation when the target is not found
ContextMessagesOfMissing(chs, messageId) ==
    LET currentIndex == FindIndex(chs, messageId)
    IN IF currentIndex = 0 THEN chs
       ELSE LET currentMessage == chs[currentIndex]
            IN CASE currentMessage.role \in {"function", "user"} ->
                      Slice(chs, currentIndex)
                 [] currentMessage.role = "assistant" ->
                      LET userIndex == FindIndex(chs, currentMessage.parentId)
                      IN Slice(chs, IF userIndex = 0 THEN currentIndex ELSE userIndex)
                 [] OTHER -> << >>

\* a context that ends at the target whatever its role
ContextMessagesToTarget(chs, messageId) ==
    LET currentIndex == FindIndex(chs, messageId)
    IN IF currentIndex = 0 THEN << >>
       ELSE LET currentMessage == chs[currentIndex]
            IN CASE currentMessage.role \in {"function", "user", "assistant"} ->
                      Slice(chs, currentIndex)
                 [] OTHER -> << >>

\* a context that is the whole conversation when the assistant's parent is
\* not found
ContextMessagesOfOrphan(chs, messageId) ==
    LET currentIndex == FindIndex(chs, messageId)
    IN IF currentIndex = 0 THEN << >>
       ELSE LET currentMessage == chs[currentIndex]
            IN CASE currentMessage.role \in {"function", "user"} ->
                      Slice(chs, currentIndex)
                 [] currentMessage.role = "assistant" ->
                      LET userIndex == FindIndex(chs, currentMessage.parentId)
                      IN Slice(chs, IF userIndex = 0 THEN Len(chs) ELSE userIndex)
                 [] OTHER -> << >>

\* contextMessages of resendMessage(messageId): the slice the target's role
\* selects, << >> when the target is not in the conversation
ContextMessages(chs, messageId) ==
    LET currentIndex == FindIndex(chs, messageId)
    IN IF currentIndex = 0 THEN << >>
       ELSE LET currentMessage == chs[currentIndex]
            IN CASE currentMessage.role \in {"function", "user"} ->
                      Slice(chs, currentIndex)
                 [] currentMessage.role = "assistant" ->
                      LET userIndex == FindIndex(chs, currentMessage.parentId)
                      IN Slice(chs, IF userIndex = 0 THEN currentIndex ELSE userIndex)
                 [] OTHER -> << >>

\* contextMessages.filter((s) => s.role === 'user')
UserMessages(contextMessages) ==
    SelectSeq(contextMessages, LAMBDA m : m.role = "user")

\* whether resendMessage(messageId) returns before realFetchAIResponse
ResendReturnsEarly(chs, messageId) ==
    \/ Len(ContextMessages(chs, messageId)) <= 0
    \/ Len(UserMessages(ContextMessages(chs, messageId))) = 0

\* latestMsg: the last user message of the context
LatestMsg(contextMessages) ==
    UserMessages(contextMessages)[Len(UserMessages(contextMessages))]

\* what resendMessage(messageId) does to the attempts, up to the
\* `await getMessageId` of realFetchAIResponse; the conversation is only read
Resend(messageId) ==
    IF ResendReturnsEarly(chats, messageId)
    THEN UNCHANGED <<procs, nextId>>
    ELSE /\ Len(procs) < MaxAttempts
         /\ LET contextMessages == ContextMessages(chats, messageId)
            IN procs' = Append(procs, NewAttempt(contextMessages,
                                                 LatestMsg(contextMessages).id,
                                                 nextId))
         /\ nextId' = nextId + 1

\* resendMessage(messageId), called on the store
ResendMessage(messageId) ==
    /\ lastOp' = Op("resendMessage")
    /\ UNCHANGED updateCommands
    /\ Resend(messageId)
    /\ UNCHANGED <<chats, chatLoadingId, abortController,
                   clearPending, chunkCount, stopSeen>>

\* ----------------------------------------------------- deleteMessage
DeleteMessage(id) ==
    /\ lastOp' = Op("deleteMessage")
    /\ UNCHANGED updateCommands
    /\ chats' = messagesReducer(chats, DeletePayload(id))
    /\ UNCHANGED <<chatLoadingId, abortController, procs, nextId,
                   clearPending, chunkCount, stopSeen>>

\* ---------------------------------------------------- onActionsClick
\* the list's 'regenerate' action on the i-th message: resendMessage(id),
\* then deleteMessage(id) when the message holds an error
OnActionsClickRegenerate(i) ==
    /\ i \in 1..Len(chats)
    /\ lastOp' = Op("regenerate")
    /\ UNCHANGED updateCommands
    /\ Resend(chats[i].id)
    /\ chats' = IF chats[i].error # NoError
                THEN messagesReducer(chats, DeletePayload(chats[i].id))
                ELSE chats
    /\ UNCHANGED <<chatLoadingId, abortController, clearPending,
                   chunkCount, stopSeen>>

\* ------------------------------------------------------ clearMessage
\* clearMessage() with no onResetMessage configured: the reset is applied
\* at once
ClearMessage ==
    /\ lastOp' = Op("clearMessage")
    /\ UNCHANGED updateCommands
    /\ chats' = messagesReducer(chats, ResetPayload)
    /\ UNCHANGED <<chatLoadingId, abortController, procs, nextId, clearPending,
                   chunkCount, stopSeen>>

\* a clearMessage() that resets before it awaits onResetMessage
ClearMessageResetFirst ==
    /\ clearPending < MaxClears
    /\ lastOp' = Op("clearMessage")
    /\ clearPending' = clearPending + 1
    /\ chats' = messagesReducer(chats, ResetPayload)
    /\ UNCHANGED <<chatLoadingId, abortController, procs, nextId,
                   chunkCount, stopSeen, updateCommands>>

\* clearMessage() with onResetMessage configured, up to
\* `await onResetMessage()`
ClearMessageAwait ==
    /\ clearPending < MaxClears
    /\ lastOp' = Op("clearMessage")
    /\ UNCHANGED updateCommands
    /\ clearPending' = clearPending + 1
    /\ UNCHANGED <<chats, chatLoadingId, abortController, procs, nextId,
                   chunkCount, stopSeen>>

\* clearMessage() after `await onResetMessage()`
ClearMessageResume ==
    /\ clearPending > 0
    /\ lastOp' = Op("clearMessageResume")
    /\ UNCHANGED updateCommands
    /\ clearPending' = clearPending - 1
    /\ chats' = messagesReducer(chats, ResetPayload)
    /\ UNCHANGED <<chatLoadingId, abortController, procs, nextId,
                   chunkCount, stopSeen>>

\* ---------------------------- realFetchAIResponse and generateMessage
\* a placeholder that loses its parent
PlaceholderNoParent(mid, userMessageId) ==
    AddPayload(mid, "assistant", LOADING_FLAT, None)

\* a placeholder that takes the id of its parent
PlaceholderWithParentId(mid, userMessageId) ==
    AddPayload(userMessageId, "assistant", LOADING_FLAT, userMessageId)

\* the addMessage command of the empty assistant message
PlaceholderPayload(mid, userMessageId) ==
    AddPayload(mid, "assistant", LOADING_FLAT, userMessageId)

\* an attempt whose request has been sent: generateMessage reads its
\* messages no more
Started(attempt) ==
    [attempt EXCEPT !.pc = "streaming", !.messages = << >>,
                    !.userMessageId = None]

\* realFetchAIResponse after `await getMessageId`, and generateMessage up to
\* `await fetchSSE`: the placeholder is added and tagged with the model,
\* toggleChatLoading(true, mid) installs a new controller, the request starts
RealFetchAIResponse(p) ==
    /\ p \in 1..Len(procs)
    /\ procs[p].pc = "getMessageId"
    /\ lastOp' = Op("realFetchAIResponse")
    /\ UNCHANGED updateCommands
    /\ LET mid == procs[p].mid
           session == toggleChatLoading(TRUE, mid, p)
       IN /\ chats' = messagesReducer(
                         messagesReducer(chats,
                            PlaceholderPayload(mid, procs[p].userMessageId)),
                         ExtraPayload(mid, "fromModel", ConfigModel))
          /\ abortController' = session.abortController
          /\ chatLoadingId' = session.chatLoadingId
    /\ procs' = [procs EXCEPT ![p] = Started(procs[p])]
    /\ UNCHANGED <<nextId, clearPending, chunkCount, stopSeen>>

\* `output = text`: the chunk replaces the output
AccumulateOverwrite(output, text) == text

\* `output += text`
Accumulate(output, text) == output \o text

\* `!abortController.signal.aborted`: the handler dispatches the chunk
DispatchesChunk(attempt) == ~attempt.aborted

\* a flag that is never set
FunctionCallFlagUnset(isFunctionCall, output) == isFunctionCall

\* `if (isFunctionMessage(output)) isFunctionCall = true`
FunctionCallFlag(isFunctionCall, output) ==
    isFunctionCall \/ isFunctionMessage(output)

\* onMessageHandle(text) of attempt p: a chunk arrives, also one that was
\* already buffered when the attempt's controller was aborted
OnMessageHandle(p, text) ==
    /\ p \in 1..Len(procs)
    /\ procs[p].pc = "streaming"
    /\ chunkCount < MaxChunks
    /\ chunkCount' = chunkCount + 1
    /\ lastOp' = Op("onMessageHandle")
    /\ UNCHANGED updateCommands
    /\ LET output == Accumulate(procs[p].output, text)
       IN IF DispatchesChunk(procs[p])
          THEN /\ chats' = messagesReducer(chats,
                              UpdatePayload(procs[p].mid, "content", output))
               /\ procs' = [procs EXCEPT
                     ![p].output = output,
                     ![p].received = Append(@, text),
                     ![p].dispatched = Append(@, output),
                     ![p].isFunctionCall = FunctionCallFlag(@, output)]
          ELSE /\ procs' = [procs EXCEPT
                     ![p].output = output,
                     ![p].received = Append(@, text)]
               /\ UNCHANGED chats
    /\ UNCHANGED <<chatLoadingId, abortController, nextId,
                   clearPending, stopSeen>>

\* a consumer that reports an error after the request was cancelled
ConsumerMayErrorAfterCancel(attempt) == attempt.pc = "streaming"

\* the streaming consumer calls onErrorHandle at most once, as its last
\* callback, and never once the request was cancelled
ConsumerMayError(attempt) == attempt.pc = "streaming" /\ ~attempt.aborted

\* an error that replaces the content
ErrorPayloadAsContent(id, error) == UpdatePayload(id, "content", << >>)

\* the updateMessage command of onErrorHandle
ErrorPayload(id, error) == UpdatePayload(id, "error", error)

\* onErrorHandle(error) of attempt p
OnErrorHandle(p) ==
    /\ p \in 1..Len(procs)
    /\ ConsumerMayError(procs[p])
    /\ lastOp' = Op("onErrorHandle")
    /\ UNCHANGED updateCommands
    /\ chats' = messagesReducer(chats, ErrorPayload(procs[p].mid, ChatError))
    /\ procs' = [procs EXCEPT ![p].pc = "errored"]
    /\ UNCHANGED <<chatLoadingId, abortController, nextId,
                   clearPending, chunkCount, stopSeen>>

\* the session generateMessage leaves when fetchSSE has returned
EndSession == toggleChatLoading(FALSE, None, None)

\* an attempt whose generateMessage has returned: its result stays, its
\* locals are gone
Returned(attempt) ==
    [NewAttempt(<< >>, None, None) EXCEPT
        !.pc = "done",
        !.isFunctionCall = attempt.isFunctionCall]

\* generateMessage of attempt p after `await fetchSSE` (the stream ended, the
\* consumer reported an error, or it stopped on cancellation):
\* toggleChatLoading(false), and { isFunctionCall } is returned
GenerateMessageEnd(p) ==
    /\ p \in 1..Len(procs)
    /\ procs[p].pc \in {"streaming", "errored"}
    /\ lastOp' = Op("generateMessageEnd")
    /\ UNCHANGED updateCommands
    /\ abortController' = EndSession.abortController
    /\ chatLoadingId' = EndSession.chatLoadingId
    /\ procs' = [procs EXCEPT ![p] = Returned(procs[p])]
    /\ stopSeen' = stopSeen \ {p}
    /\ UNCHANGED <<chats, nextId, clearPending, chunkCount>>

\* ------------------------------------------------ stopGenerateMessage
\* `lastChat.content === LOADING_FLAT`
LastIsLoadingFlat(chs) ==
    Len(chs) > 0 /\ chs[Len(chs)].content = LOADING_FLAT

\* emptying the last message instead of the loading one
StopClearIdLast == IF Len(chats) > 0 THEN chats[Len(chats)].id ELSE None

\* the id of the updateMessage command that empties the content
StopClearId == chatLoadingId

\* a stop that forgets toggleChatLoading(false)
StopSessionKept ==
    [abortController |-> abortController, chatLoadingId |-> chatLoadingId]

\* the session stopGenerateMessage leaves after abort()
StopSession == toggleChatLoading(FALSE, None, None)

\* the attempts that are streaming
Streaming == {p \in 1..Len(procs) : procs[p].pc = "streaming"}

\* stopGenerateMessage()
StopGenerateMessage ==
    /\ lastOp' = Op("stopGenerateMessage")
    /\ UNCHANGED updateCommands
    /\ stopSeen' = stopSeen \cup Streaming
    /\ chats' = IF LastIsLoadingFlat(chats)
                THEN messagesReducer(chats, UpdatePayload(StopClearId, "content", << >>))
                ELSE chats
    /\ IF abortController = None
       THEN UNCHANGED <<procs, abortController, chatLoadingId>>
       ELSE /\ procs' = [procs EXCEPT ![abortController].aborted = TRUE]
            /\ abortController' = StopSession.abortController
            /\ chatLoadingId' = StopSession.chatLoadingId
    /\ UNCHANGED <<nextId, clearPending, chunkCount>>

\* ------------------------------------------------------ specification
Next ==
    \/ \E message \in Texts : SendMessage(message)
    \/ \E id \in 1..(nextId - 1) : ResendMessage(id)
    \/ \E id \in 1..(nextId - 1) : DeleteMessage(id)
    \/ \E i \in 1..Len(chats) : OnActionsClickRegenerate(i)
    \/ ClearMessage
    \/ ClearMessageAwait
    \/ ClearMessageResume
    \/ \E p \in 1..Len(procs) : RealFetchAIResponse(p)
    \/ \E p \in 1..Len(procs) : \E text \in ChunkTexts : OnMessageHandle(p, text)
    \/ \E p \in 1..Len(procs) : OnErrorHandle(p)
    \/ \E p \in 1..Len(procs) : GenerateMessageEnd(p)
    \/ StopGenerateMessage

Spec == Init /\ [][Next]_vars

\* ------------------------------- a store constructed with a conversation
\* the messages a conversation c can be continued with: any role; an
\* assistant message may name an earlier user message as its parent and may
\* hold an error
InitMessages(c, id) ==
    {NewMessage(id, role, <<"h">>, None) : role \in {"user", "function", "system"}}
    \cup {[NewMessage(id, "assistant", <<"h">>, parent) EXCEPT !.error = error] :
             parent \in {None} \cup {c[j].id : j \in {k \in 1..Len(c) : c[k].role = "user"}},
             error \in {NoError, ChatError}}

\* the conversations of at most n messages, with ids 1, 2, ...
RECURSIVE Conversations(_)
Conversations(n) ==
    IF n = 0 THEN {<< >>}
    ELSE LET shorter == Conversations(n - 1)
         IN shorter \cup
            UNION {{Append(c, m) : m \in InitMessages(c, n)} :
                     c \in {x \in shorter : Len(x) = n - 1}}

\* the store constructed with a conversation, no attempt started
InitChats ==
    /\ chats \in Conversations(MaxInitLen)
    /\ chatLoadingId = None
    /\ abortController = None
    /\ procs = << >>
    /\ nextId = Len(chats) + 1
    /\ clearPending = 0
    /\ chunkCount = 0
    /\ stopSeen = {}
    /\ lastOp = Op("init")
    /\ updateCommands = 0

\* resend, regenerate and delete on such a store, and the start of the
\* attempts they make
NextResend ==
    \/ \E id \in 1..(nextId - 1) : ResendMessage(id)
    \/ \E id \in 1..(nextId - 1) : DeleteMessage(id)
    \/ \E i \in 1..Len(chats) : OnActionsClickRegenerate(i)
    \/ \E p \in 1..Len(procs) : RealFetchAIResponse(p)

SpecResend == InitChats /\ [][NextResend]_vars

\* ----------------------------------------------- updateMessageContent
\* the conversation after the updateMessage command was applied n times
RECURSIVE UpdateTimes(_, _, _, _)
UpdateTimes(chs, id, content, n) ==
    IF n = 0 THEN chs
    ELSE UpdateTimes(messagesReducer(chs, UpdatePayload(id, "content", content)),
                     id, content, n - 1)

\* updateMessageContent(id, content): it dispatches the command and calls
\* itself, with no await and no condition, so the calls nest until the call
\* stack is exhausted, at a depth of 2 or more; every nested call has
\* dispatched by then
UpdateMessageContent(id, content) ==
    /\ lastOp' = [op |-> "updateMessageContent", text |-> content]
    /\ \E depth \in 2..MaxStack :
          /\ chats' = UpdateTimes(chats, id, content, depth)
          /\ updateCommands' = depth
    /\ UNCHANGED <<chatLoadingId, abortController, procs, nextId,
                   clearPending, chunkCount, stopSeen>>

\* messages are sent, their attempts start, and contents are edited
NextUpdate ==
    \/ \E message \in Texts : SendMessage(message)
    \/ \E p \in 1..Len(procs) : RealFetchAIResponse(p)
    \/ \E id \in 1..(nextId - 1) : \E content \in Texts :
          UpdateMessageContent(id, content)

SpecUpdate == Init /\ [][NextUpdate]_vars

\* ============================================================ claims
\* the attempts whose generateMessage is running
Running == {p \in 1..Len(procs) : procs[p].pc \in {"streaming", "errored"}}

\* the messages of a conversation with the given id
WithId(chs, id) == {i \in 1..Len(chs) : chs[i].id = id}

\* the concatenation of a sequence of texts
RECURSIVE Concat(_)
Concat(texts) ==
    IF texts = << >> THEN << >>
    ELSE Concat(SubSeq(texts, 1, Len(texts) - 1)) \o texts[Len(texts)]

\* s is a prefix of t
IsPrefix(s, t) == Len(s) <= Len(t) /\ SubSeq(t, 1, Len(s)) = s

\* the state of the store and of the attempts, without the history
store == <<chats, chatLoadingId, abortController, procs, nextId, clearPending,
           chunkCount>>

\* C1: at most one generation attempt is streaming with a controller that
\* was not aborted: starting an attempt aborts the one before it.
C1_OneActiveSession ==
    Cardinality({p \in Streaming : ~procs[p].aborted}) <= 1

\* C2: once stopGenerateMessage was called, no chunk is dispatched for an
\* attempt that was streaming at that time.
C2_NoDispatchAfterStop ==
    [][\A p \in stopSeen :
          Len(procs'[p].dispatched) <= Len(procs[p].dispatched)]_vars

\* C3: when chatLoadingId is set, a message with that id is in the
\* conversation.
C3_LoadingMessageExists ==
    chatLoadingId # None => chatLoadingId \in Ids(chats)

\* C4: in an attempt that was not aborted, every chunk was dispatched, the
\* k-th dispatched content is the concatenation of the first k chunks, and
\* each dispatched content is a prefix of the next.
C4_PrefixIncreasing ==
    \A p \in Running :
       ~procs[p].aborted =>
          /\ Len(procs[p].dispatched) = Len(procs[p].received)
          /\ \A k \in 1..Len(procs[p].dispatched) :
                procs[p].dispatched[k] = Concat(SubSeq(procs[p].received, 1, k))
          /\ \A k \in 1..(Len(procs[p].dispatched) - 1) :
                IsPrefix(procs[p].dispatched[k], procs[p].dispatched[k + 1])

\* C4 witness: chunks "a", "f" were dispatched as "a", "af".
C4_Witness ==
    \E p \in Running :
       /\ ~procs[p].aborted
       /\ procs[p].received = << <<"a">>, <<"f">> >>
       /\ procs[p].dispatched = << <<"a">>, <<"a", "f">> >>

\* C5: when the consumer reports an error, the attempt's message gets the
\* error and nothing else of the conversation changes; after at least one
\* chunk its content is the accumulated output; when generateMessage then
\* returns, chatLoadingId and abortController are unset.
C5_ErrorKeepsContent ==
    [][\A p \in 1..Len(procs) :
          /\ (procs[p].pc = "streaming" /\ procs'[p].pc = "errored") =>
                /\ Len(chats') = Len(chats)
                /\ \A i \in 1..Len(chats) :
                      chats'[i] = IF chats[i].id = procs[p].mid
                                  THEN [chats[i] EXCEPT !.error = ChatError]
                                  ELSE chats[i]
                /\ \A i \in WithId(chats, procs[p].mid) :
                      Len(procs[p].received) >= 1 =>
                         chats'[i].content = procs[p].output
                /\ UNCHANGED <<chatLoadingId, abortController>>
          /\ (procs[p].pc = "errored" /\ procs'[p].pc = "done") =>
                /\ chatLoadingId' = None
                /\ abortController' = None
                /\ chats' = chats]_vars

\* C5 witness: an attempt failed after chunk "a" and has returned: its
\* message holds "a" and the error, and no session is left.
C5_Witness ==
    /\ lastOp.op = "generateMessageEnd"
    /\ chatLoadingId = None
    /\ abortController = None
    /\ \E i \in 1..Len(chats) :
          chats[i].content = <<"a">> /\ chats[i].error = ChatError

C7_StopClearsSentinel ==
    [][(lastOp'.op = "stopGenerateMessage" /\ LastIsLoadingFlat(chats)) =>
          /\ Len(chats') = Len(chats)
          /\ chats'[Len(chats')].content = << >>
          /\ chatLoadingId' = None
          /\ abortController # None => procs'[abortController].aborted]_vars

\* C7 as amended: a stopGenerateMessage called when the last message is the
\* message chatLoadingId names and holds LOADING_FLAT leaves that message
\* empty and chatLoadingId and abortController unset, the controller aborted.
C7_StopClearsLoadingMessage ==
    [][(/\ lastOp'.op = "stopGenerateMessage"
        /\ LastIsLoadingFlat(chats)
        /\ chats[Len(chats)].id = chatLoadingId) =>
          /\ Len(chats') = Len(chats)
          /\ chats'[Len(chats')] = [chats[Len(chats)] EXCEPT !.content = << >>]
          /\ chatLoadingId' = None
          /\ abortController' = None
          /\ abortController # None
          /\ procs'[abortController].aborted]_vars

\* C7 witness: a stop has emptied the placeholder of a streaming attempt and
\* aborted its controller.
C7_Witness ==
    /\ lastOp.op = "stopGenerateMessage"
    /\ chatLoadingId = None
    /\ Len(chats) > 0
    /\ chats[Len(chats)].content = << >>
    /\ \E p \in Streaming :
          procs[p].aborted /\ procs[p].mid = chats[Len(chats)].id

\* C8: a stopGenerateMessage called with no controller and no chatLoadingId
\* changes neither the conversation nor the session nor any attempt.
C8_StopIdleNoop ==
    [][(/\ lastOp'.op = "stopGenerateMessage"
        /\ abortController = None
        /\ chatLoadingId = None) => UNCHANGED store]_vars

\* C8 witness: stop was called with every attempt returned and the last
\* message still holding LOADING_FLAT, which it keeps.
C8_Witness ==
    /\ lastOp.op = "stopGenerateMessage"
    /\ abortController = None
    /\ chatLoadingId = None
    /\ Len(procs) > 0
    /\ \A p \in 1..Len(procs) : procs[p].pc = "done"
    /\ LastIsLoadingFlat(chats)

\* C9: sendMessage with a non-empty text appends the user message with a
\* fresh id and starts an attempt whose parent it is; when the attempt
\* starts generating it appends the assistant message with LOADING_FLAT and
\* that parent, and chatLoadingId is the assistant message's id.
C9_SendAppendsTwo ==
    [][/\ (lastOp'.op = "sendMessage" /\ lastOp'.text # << >>) =>
             /\ nextId \notin Ids(chats)
             /\ chats' = Append(chats, NewMessage(nextId, "user", lastOp'.text, None))
             /\ Len(procs') = Len(procs) + 1
             /\ procs'[Len(procs')].pc = "getMessageId"
             /\ procs'[Len(procs')].userMessageId = nextId
             /\ UNCHANGED <<chatLoadingId, abortController>>
       /\ \A p \in 1..Len(procs) :
             (procs[p].pc = "getMessageId" /\ procs'[p].pc = "streaming") =>
                /\ procs[p].mid \notin Ids(chats)
                /\ chats' = Append(chats,
                      [NewMessage(procs[p].mid, "assistant", LOADING_FLAT,
                                  procs[p].userMessageId)
                         EXCEPT !.fromModel = ConfigModel])
                /\ chatLoadingId' = procs[p].mid]_vars

\* C9 witness: sendMessage("h") on the empty conversation has led to the
\* two messages, the second one loading.
C9_Witness ==
    /\ Len(chats) = 2
    /\ chats[1] = NewMessage(1, "user", <<"h">>, None)
    /\ chats[2] = [NewMessage(2, "assistant", LOADING_FLAT, 1)
                     EXCEPT !.fromModel = ConfigModel]
    /\ chatLoadingId = 2
    /\ Len(procs) = 1
    /\ procs[1].pc = "streaming"

\* C10: sendMessage with the empty text changes nothing: no message, no
\* attempt, the same chatLoadingId and abortController.
C10_SendEmptyNoop ==
    [][(lastOp'.op = "sendMessage" /\ lastOp'.text = << >>) =>
          UNCHANGED <<store, stopSeen>>]_vars

\* C10 witness: sendMessage("") was called while an attempt was loading.
C10_Witness ==
    /\ lastOp = [op |-> "sendMessage", text |-> << >>]
    /\ chatLoadingId # None
    /\ Streaming # {}

\* ------------------------------------------------------------------ C11
\* the roles of the messages of a sequence
Roles(chs) == {chs[i].role : i \in 1..Len(chs)}

\* C11: resendMessage(id) changes nothing of the store (no message added,
\* deleted or changed, no attempt made, chatLoadingId as it was) when id is
\* not the id of a message of the conversation, and when the context its
\* target selects holds no user message.
C11_ResendNoop ==
    [][\A id \in 1..(nextId - 1) :
          (/\ ResendMessage(id)
           /\ \/ id \notin Ids(chats)
              \/ "user" \notin Roles(ContextMessages(chats, id)))
          => UNCHANGED store]_vars

\* a resendMessage has just returned early, in a conversation where one id
\* names no message and one message's context holds no user message
C11_Witness ==
    /\ lastOp.op = "resendMessage"
    /\ procs = << >>
    /\ \E id \in 1..(nextId - 1) : id \notin Ids(chats)
    /\ \E id \in Ids(chats) : "user" \notin Roles(ContextMessages(chats, id))
    /\ "user" \in Roles(chats)

\* ------------------------------------------------------------------ C12
\* the attempt made last
NewestAttempt(ps) == ps[Len(ps)]

\* the i-th message is an assistant message whose parentId is the id of a
\* user message at the earlier position k
ParentAt(chs, i, k) ==
    /\ chs[i].role = "assistant"
    /\ k \in 1..(i - 1)
    /\ chs[k].role = "user"
    /\ chs[k].id = chs[i].parentId

\* C12: resendMessage(id) on an assistant message whose parentId is the id
\* of an earlier user message hands to generation exactly the messages from
\* the start up to and including that user message; the message the attempt
\* then appends is an assistant message with an id no message had; the
\* original stays in the conversation unless it held an error.
C12_ResendAssistant ==
    /\ [][\A i \in 1..Len(chats) : \A k \in 1..Len(chats) :
             (/\ ParentAt(chats, i, k)
              /\ ResendMessage(chats[i].id) \/ OnActionsClickRegenerate(i))
             => /\ Len(procs') = Len(procs) + 1
                /\ NewestAttempt(procs').messages = Slice(chats, k)
                /\ NewestAttempt(procs').mid \notin Ids(chats)
                /\ chats[i].error = NoError => chats' = chats]_vars
    /\ [][\A p \in 1..Len(procs) :
             (procs[p].pc = "getMessageId" /\ procs'[p].pc = "streaming")
             => /\ Len(chats') = Len(chats) + 1
                /\ chats'[Len(chats')].role = "assistant"
                /\ chats'[Len(chats')].id = procs[p].mid
                /\ procs[p].mid \notin Ids(chats)
                /\ Slice(chats', Len(chats)) = chats]_vars

\* a resend has made an attempt whose context ends at the parent user
\* message of an assistant message that is still in the conversation
C12_Witness ==
    /\ lastOp.op \in {"resendMessage", "regenerate"}
    /\ procs # << >>
    /\ NewestAttempt(procs).pc = "getMessageId"
    /\ \E i \in 1..Len(chats) : \E k \in 1..Len(chats) :
          /\ ParentAt(chats, i, k)
          /\ chats[i].error = NoError
          /\ NewestAttempt(procs).messages = Slice(chats, k)
          /\ k > 1

\* ------------------------------------------------------------------ C13
\* the step is resendMessage on the i-th message, called on the store or by
\* the list's regenerate action, and it makes an attempt
ResendMakesAttempt(i) ==
    /\ ResendMessage(chats[i].id) \/ OnActionsClickRegenerate(i)
    /\ Len(procs') = Len(procs) + 1

\* C13 as stated: the context of a resend on an assistant message is the
\* messages before its parent user message, the parent excluded, when the
\* parentId names a message, and the messages up to and including the
\* assistant message when it names none.
C13_ContextExcludesParent ==
    [][\A i \in 1..Len(chats) :
          (chats[i].role = "assistant" /\ ResendMakesAttempt(i))
          => LET k == FindIndex(chats, chats[i].parentId)
             IN NewestAttempt(procs').messages =
                   Slice(chats, IF k = 0 THEN i ELSE k - 1)]_vars

\* C13, amended: the context of a resend on an assistant message is the
\* messages up to and including its parent message when the parentId names
\* a message, and the messages up to and including the assistant message
\* when it names none.
C13_ContextIncludesParent ==
    [][\A i \in 1..Len(chats) :
          (chats[i].role = "assistant" /\ ResendMakesAttempt(i))
          => LET k == FindIndex(chats, chats[i].parentId)
             IN NewestAttempt(procs').messages =
                   Slice(chats, IF k = 0 THEN i ELSE k)]_vars

\* a resend has made an attempt whose context ends with an assistant
\* message of the conversation whose parent was deleted
C13_Witness ==
    /\ lastOp.op = "resendMessage"
    /\ procs # << >>
    /\ NewestAttempt(procs).pc = "getMessageId"
    /\ LET messages == NewestAttempt(procs).messages
           last == messages[Len(messages)]
       IN /\ messages # << >>
          /\ last.role = "assistant"
          /\ last.parentId # None
          /\ last.parentId \notin Ids(chats)
          /\ Len(messages) <= Len(chats)
          /\ messages = Slice(chats, Len(messages))

\* ------------------------------------------------------------------ C14
\* C14: when the list's regenerate action is taken on a message that holds
\* an error and a retry is made, the message is not among the messages
\* handed to generation and is no longer in the conversation, so it is
\* absent when the retry's placeholder is appended.
C14_ErroredNotInRetry ==
    [][\A i \in 1..Len(chats) :
          (/\ chats[i].error # NoError
           /\ OnActionsClickRegenerate(i)
           /\ Len(procs') = Len(procs) + 1)
          => /\ chats[i].id \notin Ids(NewestAttempt(procs').messages)
             /\ chats[i].id \notin Ids(chats')]_vars

\* ------------------------------------------------------------------ C15
\* C15: updateMessageContent(id, content) applies exactly one updateMessage
\* command and ends.
C15_OneCommand ==
    lastOp.op = "updateMessageContent" => updateCommands = 1

\* ------------------------------------------------------------------ C16
\* no two messages of the conversation have the same id
UniqueIds(chs) ==
    \A i \in 1..Len(chs) : \A j \in 1..Len(chs) :
       chs[i].id = chs[j].id => i = j

\* C16 as stated: no two messages share an id, and every assistant message
\* with a parentId has, at an earlier position, a message with that id.
C16_ParentPresentEarlier ==
    /\ UniqueIds(chats)
    /\ \A i \in 1..Len(chats) :
          (chats[i].role = "assistant" /\ chats[i].parentId # None)
          => \E k \in 1..(i - 1) : chats[k].id = chats[i].parentId

\* C16, amended: no two messages share an id, and the parent of an
\* assistant message, while it is in the conversation, is at an earlier
\* position (it may have been deleted).
C16_ParentNeverLater ==
    /\ UniqueIds(chats)
    /\ \A i \in 1..Len(chats) : \A k \in 1..Len(chats) :
          (chats[i].role = "assistant" /\ chats[k].id = chats[i].parentId)
          => k < i

\* after a deletion, a conversation of three or more messages with an
\* assistant message whose parent is present and one that has lost its parent
C16_Witness ==
    /\ lastOp.op = "deleteMessage"
    /\ Len(chats) >= 3
    /\ \E i \in 1..Len(chats) : \E k \in 1..Len(chats) :
          chats[i].role = "assistant" /\ chats[k].id = chats[i].parentId
    /\ \E i \in 1..Len(chats) :
          /\ chats[i].role = "assistant"
          /\ chats[i].parentId \notin Ids(chats)

\* ------------------------------------------------------------------ C17
\* C17: a clearMessage with onResetMessage configured does not change the
\* conversation when it is called, only when the hook has completed; the
\* step that applies resetMessages leaves the empty conversation, whatever
\* ran while the hook was pending.
C17_ResetAfterHook ==
    /\ [][clearPending' > clearPending => chats' = chats]_vars
    /\ [][clearPending' < clearPending => chats' = << >>]_vars

\* the hook of a clearMessage has completed and the reset left the empty
\* conversation while an attempt that has received a chunk is streaming
C17_Witness ==
    /\ lastOp.op = "clearMessageResume"
    /\ clearPending = 0
    /\ chats = << >>
    /\ \E p \in 1..Len(procs) :
          procs[p].pc = "streaming" /\ procs[p].received # << >>

\* ------------------------------------------------------------------ C18
\* C18: the end of an attempt (normal end, error or abort) leaves
\* chatLoadingId and abortController as they are when they belong to a
\* newer attempt that is still streaming, so that attempt can be stopped.
C18_EndKeepsNewerSession ==
    [][\A p \in 1..Len(procs) : \A q \in 1..Len(procs) :
          (/\ procs[p].pc \in {"streaming", "errored"}
           /\ procs'[p].pc = "done"
           /\ q > p
           /\ procs[q].pc = "streaming"
           /\ abortController = q
           /\ chatLoadingId = procs[q].mid)
          => /\ abortController' = q
             /\ chatLoadingId' = procs[q].mid]_vars

\* ------------------------------------------------------------------ C19
\* C19: the messages an attempt hands to generateMessage are the
\* conversation as sendMessage or resendMessage read it, before the
\* attempt's placeholder is added: they never hold a message with the
\* attempt's own id, for sendMessage they are the conversation with the new
\* user message as last element, and for resendMessage they are a prefix of
\* the conversation at the call.
C19_ContextIsSnapshot ==
    /\ [](\A p \in 1..Len(procs) :
            procs[p].pc = "getMessageId"
            => procs[p].mid \notin Ids(procs[p].messages))
    /\ [][(lastOp'.op = "sendMessage" /\ Len(procs') = Len(procs) + 1)
            => LET messages == NewestAttempt(procs').messages
                   last == messages[Len(messages)]
               IN /\ Len(messages) = Len(chats) + 1
                  /\ Slice(messages, Len(chats)) = chats
                  /\ last.role = "user"
                  /\ last.content = lastOp'.text
                  /\ last.id \notin Ids(chats)
                  /\ chats' = messages]_vars
    /\ [][(/\ lastOp'.op \in {"resendMessage", "regenerate"}
            /\ Len(procs') = Len(procs) + 1)
            => LET messages == NewestAttempt(procs').messages
               IN /\ Len(messages) <= Len(chats)
                  /\ messages = Slice(chats, Len(messages))]_vars
    /\ [][\A p \in 1..Len(procs) :
             (procs[p].pc = "getMessageId" /\ procs'[p].pc = "streaming")
             => /\ chats'[Len(chats')].id = procs[p].mid
                /\ procs[p].mid \notin Ids(chats)
                /\ procs[p].mid \notin Ids(procs[p].messages)]_vars

\* a second sendMessage has just made its attempt: the attempt's messages
\* are the conversation, which ends with the new user message and holds the
\* placeholder of the first attempt only
C19_Witness ==
    /\ lastOp.op = "sendMessage"
    /\ Len(procs) = 2
    /\ NewestAttempt(procs).pc = "getMessageId"
    /\ NewestAttempt(procs).messages = chats
    /\ Len(chats) = 3
    /\ chats[2].role = "assistant"
    /\ chats[3].role = "user"

\* ------------------------------------------------------------------ C20
\* attempt p returns in this step
Returns(p) ==
    /\ procs[p].pc \in {"streaming", "errored"}
    /\ procs'[p].pc = "done"

\* the accumulated output of attempt p carried the marker after one of its
\* first n chunks
MarkerWithin(p, n) ==
    \E k \in 1..n : isFunctionMessage(Concat(SubSeq(procs[p].received, 1, k)))

\* C20 as stated: the isFunctionCall an attempt returns is true exactly when
\* its accumulated output carried the marker after at least one chunk.
C20_FlagIffMarkerReceived ==
    [][\A p \in 1..Len(procs) :
          Returns(p)
          => (procs'[p].isFunctionCall
                <=> MarkerWithin(p, Len(procs[p].received)))]_vars

\* C20, amended: the isFunctionCall an attempt returns is true exactly when
\* its accumulated output carried the marker after at least one chunk that
\* arrived before the attempt was cancelled; once true it stays true, and
\* the chunks that arrive after detection, while the attempt is not
\* cancelled, are still appended to the output and dispatched.
C20_FlagIffMarkerDispatched ==
    /\ [][\A p \in 1..Len(procs) :
             Returns(p)
             => (procs'[p].isFunctionCall
                   <=> MarkerWithin(p, Len(procs[p].dispatched)))]_vars
    /\ [][\A p \in 1..Len(procs) :
             procs[p].isFunctionCall => procs'[p].isFunctionCall]_vars
    /\ [][\A p \in 1..Len(procs) :
             (/\ procs[p].isFunctionCall
              /\ ~procs[p].aborted
              /\ Len(procs'[p].received) = Len(procs[p].received) + 1)
             => LET text == procs'[p].received[Len(procs'[p].received)]
                IN /\ procs'[p].output = procs[p].output \o text
                   /\ procs'[p].dispatched =
                         Append(procs[p].dispatched, procs'[p].output)
                   /\ \A i \in 1..Len(chats) :
                         chats[i].id = procs[p].mid
                         => chats'[i].content = procs'[p].output]_vars

\* an attempt has detected the marker in its first chunk and has appended
\* and dispatched the chunk after it
C20_Witness ==
    \E p \in 1..Len(procs) :
       /\ procs[p].pc = "streaming"
       /\ procs[p].isFunctionCall
       /\ procs[p].received = << <<FUNCTION_MESSAGE_FLAG>>, <<"a">> >>
       /\ procs[p].dispatched =
             << <<FUNCTION_MESSAGE_FLAG>>, <<FUNCTION_MESSAGE_FLAG, "a">> >>
       /\ WithId(chats, procs[p].mid) # {}

====
